---- MODULE Spec2Model ----
(***************************************************************************)
(* nectarnook-backend: the product catalogue and the authentication        *)
(* endpoints of src/app/main.py, with the request-scoped database session  *)
(* of get_db, the tables of src/app/models.py, the request and response    *)
(* schemas of src/schemas/schemas.py and the password and token helpers    *)
(* of src/app/security.py.                                                 *)
(*                                                                         *)
(* A handler is a coroutine: it gives up control at each await on the      *)
(* session (execute, commit).  Every such await is one step of the model;  *)
(* what the handler does between two awaits belongs to the step that       *)
(* follows.  Spec (the catalogue) and SpecAuth (users, tokens and the       *)
(* clock) run the requests one after the other, which is the contract of   *)
(* a single call; SpecConc interleaves the steps of different requests.    *)
(***************************************************************************)
EXTENDS Integers, Sequences, FiniteSets, TLC

VARIABLES
    products,   \* table "products": id -> row
    users,      \* table "users": sequence of rows, the id is the position
    sessions,   \* requests whose AsyncSession is open
    req,        \* per request: handler, arguments, position, loaded instance
    resp,       \* the response sent last
    now,        \* the clock, in minutes
    ticks,      \* number of clock advances so far
    tokens,     \* access tokens handed out to clients
    verified    \* the last call of verify_token: token, time, outcome

vars == <<products, users, sessions, req, resp, now, ticks, tokens, verified>>

---------------------------------------------------------------------------
(* Bounds of the model *)

\* number of requests of a run
NumReq == 3
\* largest number of rows of the products table
MaxId == 2
\* number of times the clock advances
MaxTicks == 2

Req == 1..NumReq
ProductIds == 1..MaxId

---------------------------------------------------------------------------
(* Values.  A nullable column or an Optional field holds None or Some(v). *)

None == <<>>
Some(v) == <<v>>

\* a JSON body names a key or leaves it out
Absent == <<>>
Present(o) == <<o>>

ProductKeys == {"name", "description", "price", "in_stock", "image_url"}

Max(S) == IF S = {} THEN 0 ELSE CHOOSE m \in S : \A x \in S : x <= m

---------------------------------------------------------------------------
(* src/schemas/schemas.py *)

\* bodies accepted by ProductCreateSchema: the four fields, all required
ProductCreateSchema ==
    [name : {"a", "c"}, description : {"d"}, price : {1}, in_stock : BOOLEAN]

Json(v) == {Absent, Present(None), Present(Some(v))}

\* bodies accepted by ProductUpdateSchema: every field is Optional with
\* default None, so a body may leave a key out, give it null or a value
ProductUpdateBodies ==
    [name : Json("b"), description : Json("e"), price : Json(2),
     in_stock : Json(FALSE), image_url : Json("u")]

\* the bodies that name at most the description
DescriptionBodies ==
    {b \in ProductUpdateBodies : \A k \in ProductKeys \ {"description"} : b[k] = Absent}

\* the validated model: the field values and the set of fields the body set
ProductUpdateSchema(body) ==
    [values |-> [k \in ProductKeys |->
                    IF body[k] = Absent THEN None ELSE body[k][1]],
     fields_set |-> {k \in ProductKeys : body[k] # Absent}]

\* model_dump_exclude_unset with a fault: every field is dumped
model_dump_all(product_data) ==
    product_data.values

\* product_data.model_dump(exclude_unset=True)
model_dump_exclude_unset(product_data) ==
    [k \in product_data.fields_set |-> product_data.values[k]]

\* product_data.model_dump() of a ProductCreateSchema
model_dump(product_data) ==
    product_data

\* ProductSchema with a fault: name and description change places
ProductSchemaSwapped(product) ==
    [id |-> product.id, name |-> product.description[1],
     description |-> product.name[1], price |-> product.price[1],
     in_stock |-> product.in_stock[1]]

\* ProductSchema (the second definition, which replaces the first), built
\* from the attributes of a Product instance
ProductSchema(product) ==
    [id |-> product.id, name |-> product.name[1],
     description |-> product.description[1], price |-> product.price[1],
     in_stock |-> product.in_stock[1]]

\* whether the instance validates against ProductSchema (str, float and bool
\* fields do not take None); if not, building the response raises
Validates(product) ==
    \A k \in {"name", "description", "price", "in_stock"} : product[k] # None

\* bodies accepted by UserCreateSchema
UserCreateSchema ==
    [username : {"u1@x.io", "u2@x.io"}, password : {"pw1", "pw2"}]

\* UserSchema, built from the attributes of a User instance
UserSchema(user) ==
    [id |-> user.id, username |-> user.username, is_admin |-> user.is_admin]

---------------------------------------------------------------------------
(* src/app/models.py: the tables and the ORM's view of them *)

\* Product(**fields): a column no argument names is None
Product(fields) ==
    [k \in ProductKeys |-> IF k \in DOMAIN fields THEN Some(fields[k]) ELSE None]

\* the instance the session loads from the row with this id
Instance(table, id) ==
    [k \in ProductKeys \cup {"id"} |-> IF k = "id" THEN id ELSE table[id][k]]

\* select(Product).where(Product.id == product_id), scalars().first():
\* whether a row matches, and the instance loaded from it
Found(table, product_id) ==
    product_id \in DOMAIN table

\* the id the store gives a new row, Column(Integer, primary_key=True,
\* autoincrement=True): one more than the largest id in the table
NewId ==
    Max(DOMAIN products) + 1

\* INSERT of a row under a new id
InsertProduct(id, row) ==
    [i \in DOMAIN products \cup {id} |-> IF i = id THEN row ELSE products[i]]

\* the attributes setattr changed: the unit of work compares each with the
\* value loaded, and only these columns go into the UPDATE
Changed(instance, update_data) ==
    {k \in DOMAIN update_data : update_data[k] # instance[k]}

\* UPDATE products SET <changed columns> WHERE id = :id
UpdateProduct(id, update_data, changed) ==
    [products EXCEPT ![id] =
        [k \in ProductKeys |-> IF k \in changed THEN update_data[k] ELSE @[k]]]

\* DeleteProduct with a fault: the table is emptied
DeleteAll(id) ==
    <<>>

\* DELETE FROM products WHERE id = :id
DeleteProduct(id) ==
    [i \in DOMAIN products \ {id} |-> products[i]]

\* select(User).filter(User.username == username), scalars().first()
UsersNamed(username) ==
    {i \in DOMAIN users : users[i].username = username}

\* UniqueViolation with a fault: the column is not unique
NeverUniqueViolation(username) ==
    FALSE

\* username = Column(String, unique=True): the INSERT of a second row with
\* the username raises IntegrityError
UniqueViolation(username) ==
    UsersNamed(username) # {}

---------------------------------------------------------------------------
(* src/app/security.py *)

SECRET_KEY == "cefe4076517ea84df010b847d47fef876ab9d7cb25fd1bf786db5da41745b252"
ALGORITHM == "HS256"
ACCESS_TOKEN_EXPIRE_MINUTES == 30
DEFAULT_EXPIRE_MINUTES == 15

\* the salts bcrypt may draw
Salts == {"s1", "s2"}

\* get_password_hash with a fault: the password is stored as it is
get_password_plain(password, salt) ==
    password

\* pwd_context.hash(password): the bcrypt string, which carries its salt
get_password_hash(password, salt) ==
    "$2b$" \o salt \o "$" \o password

\* pwd_context.verify: hashes the plain password with the salt of the stored
\* hash and compares
verify_password(plain_password, hasshed_password) ==
    \E salt \in Salts : get_password_hash(plain_password, salt) = hasshed_password

HS256(header, claims, key) == <<key, header, claims>>

\* jwt.encode: header, claims and signature
jwt_encode(claims, key, algorithm) ==
    <<algorithm, claims, HS256(algorithm, claims, key)>>

\* create_access_token with a fault: the default lifetime, whatever is asked
create_access_token_default(data, expires_delta, utcnow) ==
    jwt_encode([sub |-> data.sub, exp |-> utcnow + DEFAULT_EXPIRE_MINUTES],
               SECRET_KEY, ALGORITHM)

\* create_access_token(data, expires_delta); expires_delta is None or Some
\* minutes, and "if expires_delta" is false for None and for no time at all
create_access_token(data, expires_delta, utcnow) ==
    LET expire == IF expires_delta # None /\ expires_delta[1] # 0
                  THEN utcnow + expires_delta[1]
                  ELSE utcnow + DEFAULT_EXPIRE_MINUTES
    IN  jwt_encode([sub |-> data.sub, exp |-> expire], SECRET_KEY, ALGORITHM)

\* jwt_decode_ok with a fault: the expiry is not looked at
jwt_decode_no_exp(token, key, algorithms, utcnow) ==
    /\ Len(token) = 3
    /\ token[1] \in algorithms
    /\ token[3] = HS256(token[1], token[2], key)

\* whether jwt.decode returns the claims rather than raising a JWTError:
\* three segments, an allowed algorithm, the signature of header and claims
\* under the key, and an "exp" claim, if any, not before now
jwt_decode_ok(token, key, algorithms, utcnow) ==
    /\ Len(token) = 3
    /\ token[1] \in algorithms
    /\ token[3] = HS256(token[1], token[2], key)
    /\ "exp" \in DOMAIN token[2] => ~(token[2].exp < utcnow)

Returned(v) == [raised |-> FALSE, value |-> v]
Raised(e) == [raised |-> TRUE, value |-> e]

credentials_exception == "InvalidCredentials"

\* verify_token(token, credentials_exception)
verify_token(token, utcnow) ==
    IF jwt_decode_ok(token, SECRET_KEY, {ALGORITHM}, utcnow)
    THEN IF "sub" \in DOMAIN token[2]
         THEN Returned(token[2].sub)
         ELSE Raised(credentials_exception)
    ELSE Raised(credentials_exception)

---------------------------------------------------------------------------
(* Requests *)

Idle == [op |-> "none", pc |-> "idle", id |-> 0, data |-> None, loaded |-> None]

Done == [Idle EXCEPT !.pc = "done"]

NoResponse == [req |-> 0, op |-> "none", id |-> 0, data |-> None,
               status |-> 0, body |-> None]

HTTPException(detail) == [detail |-> detail]

\* Exit with a fault: the session is closed on the success path only
ExitCloseOnSuccess(r, status, id, data, body) ==
    /\ sessions' = IF status < 400 THEN sessions \ {r} ELSE sessions
    /\ req' = [req EXCEPT ![r] = Done]
    /\ resp' = [req |-> r, op |-> req[r].op, id |-> id, data |-> data,
                status |-> status, body |-> body]

\* the handler returns or raises: "async with db as session" and get_db's
\* "async with AsyncSessionLocal() as session" close the session on the way
\* out, and the response goes out
Exit(r, status, id, data, body) ==
    /\ sessions' = sessions \ {r}
    /\ req' = [req EXCEPT ![r] = Done]
    /\ resp' = [req |-> r, op |-> req[r].op, id |-> id, data |-> data,
                status |-> status, body |-> body]

\* what a handler answers with a Product under response_model=ProductSchema
ProductResponse(r, status, data, product) ==
    IF Validates(product)
    THEN Exit(r, status, product.id, data, ProductSchema(product))
    ELSE Exit(r, 500, product.id, data, HTTPException("Internal Server Error"))

CatalogOps ==
    {"read_product", "read_products", "create_product", "update_product",
     "delete_product"}

AuthOps == {"create_user", "login_for_access_token"}

\* rows the table still has room for, the creations under way counted
Room ==
    MaxId - Max(DOMAIN products)
          - Cardinality({q \in Req : req[q].op = "create_product"
                                     /\ req[q].pc = "handler"})

\* a request arrives and the framework resolves Depends(get_db), which opens
\* the request's session.  Path and body are drawn where the handler first
\* reads them.
Request(r, ops) ==
    /\ req[r].pc = "idle"
    /\ \A q \in 1..(r - 1) : req[q].pc # "idle"
    /\ \E op \in ops :
          /\ op = "create_product" => Room > 0
          /\ req' = [req EXCEPT ![r] = [Idle EXCEPT !.op = op, !.pc = "handler"]]
    /\ sessions' = sessions \cup {r}
    /\ UNCHANGED <<products, users, resp, now, ticks, tokens, verified>>

At(r, op, pc) == req[r].op = op /\ req[r].pc = pc

---------------------------------------------------------------------------
(* src/app/main.py: the catalogue *)

NotFound == HTTPException("Product not found")

read_product(r) ==
    /\ At(r, "read_product", "handler")
    /\ \E product_id \in ProductIds :
          IF Found(products, product_id)
          THEN ProductResponse(r, 200, None, Instance(products, product_id))
          ELSE Exit(r, 404, product_id, None, NotFound)
    /\ UNCHANGED <<products, users, now, ticks, tokens, verified>>

\* [ProductSchema.from_orm(product) for product in products]; a row that
\* does not validate raises, and the except clause answers 500
read_products(r) ==
    /\ At(r, "read_products", "handler")
    /\ IF \A i \in DOMAIN products : Validates(Instance(products, i))
       THEN Exit(r, 200, 0, None,
                 [i \in DOMAIN products |-> ProductSchema(Instance(products, i))])
       ELSE Exit(r, 500, 0, None,
                 HTTPException("Internal Server Error: Unable to process request."))
    /\ UNCHANGED <<products, users, now, ticks, tokens, verified>>

\* add, commit (the INSERT) and refresh
create_product(r, bodies) ==
    /\ At(r, "create_product", "handler")
    /\ \E product_data \in bodies :
          /\ products' = InsertProduct(NewId, Product(model_dump(product_data)))
          /\ ProductResponse(r, 201, product_data, Instance(products', NewId))
    /\ UNCHANGED <<users, now, ticks, tokens, verified>>

update_product_select(r) ==
    /\ At(r, "update_product", "handler")
    /\ \E product_id \in ProductIds :
          IF Found(products, product_id)
          THEN /\ req' = [req EXCEPT ![r].pc = "commit", ![r].id = product_id,
                                     ![r].loaded = Instance(products, product_id)]
               /\ UNCHANGED <<sessions, resp>>
          ELSE Exit(r, 404, product_id, None, NotFound)
    /\ UNCHANGED <<products, users, now, ticks, tokens, verified>>

\* setattr for every dumped key, then commit (the flush sends the UPDATE,
\* if an attribute changed, and raises StaleDataError when the UPDATE matches
\* no row) and refresh (which raises InvalidRequestError when the row is
\* gone); neither error is caught, and the answer is 500
update_product_commit(r, bodies) ==
    /\ At(r, "update_product", "commit")
    /\ \E body \in bodies :
          LET product_id == req[r].id
              product_data == ProductUpdateSchema(body)
              update_data == model_dump_exclude_unset(product_data)
              changed == Changed(req[r].loaded, update_data)
          IN  IF Found(products, product_id)
              THEN /\ products' = UpdateProduct(product_id, update_data, changed)
                   /\ ProductResponse(r, 200, body,
                                      Instance(products', product_id))
              ELSE /\ products' = products
                   /\ Exit(r, 500, product_id, body,
                           HTTPException("Internal Server Error"))
    /\ UNCHANGED <<users, now, ticks, tokens, verified>>

\* delete_product_select with a fault: the row is not looked for
delete_product_unchecked(r) ==
    /\ At(r, "delete_product", "handler")
    /\ \E product_id \in ProductIds :
          /\ req' = [req EXCEPT ![r].pc = "commit", ![r].id = product_id]
          /\ UNCHANGED <<sessions, resp>>
    /\ UNCHANGED <<products, users, now, ticks, tokens, verified>>

delete_product_select(r) ==
    /\ At(r, "delete_product", "handler")
    /\ \E product_id \in ProductIds :
          IF Found(products, product_id)
          THEN /\ req' = [req EXCEPT ![r].pc = "commit", ![r].id = product_id,
                                     ![r].loaded = Instance(products, product_id)]
               /\ UNCHANGED <<sessions, resp>>
          ELSE Exit(r, 404, product_id, None, NotFound)
    /\ UNCHANGED <<products, users, now, ticks, tokens, verified>>

\* session.delete, then commit: a DELETE that matches no row is a warning
\* of the ORM, not an error
delete_product_commit(r) ==
    /\ At(r, "delete_product", "commit")
    /\ products' = DeleteProduct(req[r].id)
    /\ Exit(r, 200, req[r].id, None, [message |-> "Product deleted successfully"])
    /\ UNCHANGED <<users, now, ticks, tokens, verified>>

---------------------------------------------------------------------------
(* src/app/main.py: users and tokens *)

create_user_select(r) ==
    /\ At(r, "create_user", "handler")
    /\ \E user \in UserCreateSchema :
          IF UsersNamed(user.username) # {}
          THEN Exit(r, 400, 0, user, HTTPException("User already exists"))
          ELSE /\ req' = [req EXCEPT ![r].pc = "commit", ![r].data = user]
               /\ UNCHANGED <<sessions, resp>>
    /\ UNCHANGED <<products, users, now, ticks, tokens, verified>>

\* the hash, User(...), add, and the commit that leaving session.begin()
\* makes: the INSERT raises IntegrityError when the username is taken by
\* then; the error is not caught, and the answer is 500
create_user_commit(r) ==
    /\ At(r, "create_user", "commit")
    /\ \E salt \in Salts :
          LET user == req[r].data
              new_user == [username |-> user.username,
                           hashed_password |-> get_password_hash(user.password, salt),
                           is_admin |-> FALSE]
          IN  IF UniqueViolation(user.username)
              THEN /\ users' = users
                   /\ Exit(r, 500, 0, user, HTTPException("Internal Server Error"))
              ELSE /\ users' = Append(users, new_user)
                   /\ Exit(r, 200, Len(users'), user,
                           UserSchema([id |-> Len(users'),
                                       username |-> new_user.username,
                                       hashed_password |-> new_user.hashed_password,
                                       is_admin |-> new_user.is_admin]))
    /\ UNCHANGED <<products, now, ticks, tokens, verified>>

\* the form of OAuth2PasswordRequestForm: username and password, any strings
LoginForms ==
    [username : {"u1@x.io", "u2@x.io"}, password : {"pw1", "pw2"}]

\* select(User).filter(User.username == username), scalars().first(): the
\* id of the first row with the username, 0 when there is none
FirstNamed(username) ==
    IF UsersNamed(username) = {} THEN 0
    ELSE CHOOSE i \in UsersNamed(username) : \A j \in UsersNamed(username) : i <= j

\* authenticate_user: the id of the user, 0 for the False it returns
authenticate_user(username, password) ==
    LET db_user == FirstNamed(username) IN
    IF db_user # 0 /\ verify_password(password, users[db_user].hashed_password)
    THEN db_user
    ELSE 0

login_for_access_token(r) ==
    /\ At(r, "login_for_access_token", "handler")
    /\ \E form_data \in LoginForms :
          LET user == authenticate_user(form_data.username, form_data.password) IN
          IF user = 0
          THEN /\ tokens' = tokens
               /\ Exit(r, 401, 0, form_data,
                       HTTPException("Incorrect username or password"))
          ELSE LET access_token ==
                       create_access_token([sub |-> users[user].username],
                                           Some(ACCESS_TOKEN_EXPIRE_MINUTES), now)
               IN  /\ tokens' = tokens \cup {access_token}
                   /\ Exit(r, 200, user, form_data,
                           [access_token |-> access_token, token_type |-> "bearer"])
    /\ UNCHANGED <<products, users, now, ticks, verified>>

---------------------------------------------------------------------------
(* Clients and the clock *)

\* what a client can make of a token without the key: the token with another
\* subject or a later expiry under the old signature, the token signed with
\* a key of the client's own, and the token cut short
Forged(t) ==
    {<<t[1], [t[2] EXCEPT !.sub = "u2@x.io"], t[3]>>,
     <<t[1], [t[2] EXCEPT !.exp = @ + 1], t[3]>>,
     <<t[1], t[2], HS256(t[1], t[2], "guess")>>,
     <<"none", t[2], t[3]>>,
     <<t[1], t[2]>>}

Presentable == tokens \cup UNION {Forged(t) : t \in tokens}

NotVerified == [token |-> <<>>, at |-> 0, result |-> Raised("")]

\* a client presents a token and verify_token is called on it
verify_token_call ==
    /\ \E token \in Presentable :
          verified' = [token |-> token, at |-> now,
                       result |-> verify_token(token, now)]
    /\ UNCHANGED <<products, users, sessions, req, resp, now, ticks, tokens>>

\* time passes: a minute, or the lifetime of a token
Tick ==
    /\ ticks < MaxTicks
    /\ \E d \in {1, ACCESS_TOKEN_EXPIRE_MINUTES} : now' = now + d
    /\ ticks' = ticks + 1
    /\ UNCHANGED <<products, users, sessions, req, resp, tokens, verified>>

---------------------------------------------------------------------------
(* Specifications *)

Init ==
    /\ products = <<>>
    /\ users = <<>>
    /\ sessions = {}
    /\ req = [r \in Req |-> Idle]
    /\ resp = NoResponse
    /\ now = 0
    /\ ticks = 0
    /\ tokens = {}
    /\ verified = NotVerified

\* no request is in its handler
Quiet == \A q \in Req : req[q].pc \in {"idle", "done"}

CatalogStep(r, creates, updates) ==
    \/ read_product(r)
    \/ read_products(r)
    \/ create_product(r, creates)
    \/ update_product_select(r)
    \/ update_product_commit(r, updates)
    \/ delete_product_select(r)
    \/ delete_product_commit(r)

AuthStep(r) ==
    \/ create_user_select(r)
    \/ create_user_commit(r)
    \/ login_for_access_token(r)

\* the catalogue, one request after the other
Next ==
    \E r \in Req : \/ Quiet /\ Request(r, CatalogOps)
        \/ CatalogStep(r, ProductCreateSchema, ProductUpdateBodies)

Spec == Init /\ [][Next]_vars

\* users and tokens, one request after the other, with the clock
NextAuth ==
    \/ \E r \in Req : (Quiet /\ Request(r, AuthOps)) \/ AuthStep(r)
    \/ verify_token_call
    \/ Tick

SpecAuth == Init /\ [][NextAuth]_vars

\* all handlers, the steps of different requests interleaved
NextConc ==
    \E r \in Req :
        \/ Request(r, CatalogOps \cup AuthOps)
        \/ CatalogStep(r, {b \in ProductCreateSchema : b.name = "a"}, DescriptionBodies)
        \/ AuthStep(r)

SpecConc == Init /\ [][NextConc]_vars

---------------------------------------------------------------------------
(* Properties *)

\* request r takes the step it is at
Takes(r, op, pc) == At(r, op, pc) /\ req'[r] # req[r]

CheckedFields == {"name", "description", "price", "in_stock"}

C2_UpdateFrame ==
    [][\A r \in Req :
        Takes(r, "update_product", "commit") =>
            LET id == req[r].id
                body == resp'.data
            IN  /\ id \in DOMAIN products
                /\ resp'.id = id
                /\ DOMAIN products' = DOMAIN products
                /\ \A i \in DOMAIN products \ {id} : products'[i] = products[i]
                /\ \A k \in ProductKeys :
                      products'[id][k] =
                          IF body[k] = Absent THEN products[id][k] ELSE body[k][1]
      ]_vars

\* an update that named the price and not the name has been answered while
\* the store holds a second product
C2_Witness ==
    /\ resp.op = "update_product"
    /\ resp.status = 200
    /\ resp.data.price # Absent
    /\ resp.data.name = Absent
    /\ Cardinality(DOMAIN products) = 2

C4_Delete ==
    [][\A r \in Req :
        /\ Takes(r, "delete_product", "commit") =>
              /\ resp'.status = 200
              /\ resp'.id = req[r].id
              /\ DOMAIN products' = DOMAIN products \ {req[r].id}
              /\ \A i \in DOMAIN products' : products'[i] = products[i]
        /\ (Takes(r, "read_product", "handler") /\ resp'.id \notin DOMAIN products) =>
              resp'.status = 404
        /\ (Takes(r, "read_products", "handler") /\ resp'.status = 200) =>
              DOMAIN resp'.body = DOMAIN products
      ]_vars

\* a delete has removed a row and left another
C4_Witness ==
    /\ resp.op = "delete_product"
    /\ resp.status = 200
    /\ resp.id \notin DOMAIN products
    /\ products # <<>>

\* C5: the first step of a register whose username a stored User has ends
\* the request with 400 and leaves the users as they are; otherwise the
\* commit appends exactly one User, with the username, is_admin false and a
\* hash that is not the password, and answers 200 with the id, the username
\* and is_admin of that User and nothing else.
C5_Register ==
    [][\A r \in Req :
        /\ (Takes(r, "create_user", "handler")) =>
              LET user == IF req'[r].pc = "done" THEN resp'.data ELSE req'[r].data
              IN  /\ users' = users
                  /\ IF \E i \in DOMAIN users : users[i].username = user.username
                     THEN req'[r].pc = "done" /\ resp'.status = 400
                     ELSE req'[r].pc = "commit"
        /\ (Takes(r, "create_user", "commit")) =>
              LET user == req[r].data
                  id == Len(users) + 1
              IN  /\ Len(users') = id
                  /\ SubSeq(users', 1, Len(users)) = users
                  /\ users'[id].username = user.username
                  /\ users'[id].is_admin = FALSE
                  /\ users'[id].hashed_password # user.password
                  /\ resp'.status = 200
                  /\ resp'.body = [id |-> id, username |-> user.username,
                                   is_admin |-> FALSE]
      ]_vars

\* a second register of a stored username has been answered 400
C5_Witness ==
    /\ resp.op = "create_user"
    /\ resp.status = 400
    /\ \E i \in DOMAIN users : users[i].username = resp.data.username

\* C6: a login answers 200 exactly when some stored User has the username
\* and the password verifies against its hash, and 401 otherwise; the token
\* of a 200 is a bearer token with the username as subject and the time of
\* the login plus 30 minutes as expiry; the users are left as they are.
C6_Login ==
    [][\A r \in Req :
        Takes(r, "login_for_access_token", "handler") =>
            LET form == resp'.data
                good == \E i \in DOMAIN users :
                            /\ users[i].username = form.username
                            /\ verify_password(form.password, users[i].hashed_password)
            IN  /\ users' = users
                /\ resp'.status = IF good THEN 200 ELSE 401
                /\ good =>
                      /\ resp'.body.token_type = "bearer"
                      /\ resp'.body.access_token[2].sub = form.username
                      /\ resp'.body.access_token[2].exp = now + 30
                      /\ resp'.body.access_token \in tokens'
      ]_vars

\* a login has been answered with a token after the clock had moved
C6_Witness ==
    /\ resp.op = "login_for_access_token"
    /\ resp.status = 200
    /\ now > 0
    /\ resp.body.access_token[2].exp = now + 30

\* C7: verify_token returns the subject of a token that login has issued
\* and that is not past its expiry, and raises InvalidCredentials for every
\* other token: one past its expiry, one whose claims or signature are not
\* those login gave it, one cut short.
C7_VerifyToken ==
    verified # NotVerified =>
        verified.result =
            IF verified.token \in tokens /\ verified.at <= verified.token[2].exp
            THEN Returned(verified.token[2].sub)
            ELSE Raised("InvalidCredentials")

\* a token login has issued was rejected after its expiry
C7_Witness ==
    /\ verified # NotVerified
    /\ verified.token \in tokens
    /\ verified.at > verified.token[2].exp
    /\ verified.result = Raised("InvalidCredentials")

\* C8: the open sessions are those of the requests in their handlers, one
\* each; a request that has been answered, with whatever status, has none.
C8_SessionRelease ==
    /\ sessions = {r \in Req : req[r].pc \in {"handler", "commit"}}
    /\ (\A r \in Req : req[r].pc = "done") => sessions = {}

\* all requests have been answered, the last with the 500 of a store error
C8_Witness ==
    /\ \A r \in Req : req[r].pc = "done"
    /\ resp.status = 500
    /\ resp.op = "create_user"
    /\ sessions = {}

\* C9: no two stored Users have the same username, and a register that
\* answers 200 has added the one User with its username.
C9_UniqueUsername ==
    /\ [](\A i, j \in DOMAIN users : users[i].username = users[j].username => i = j)
    /\ [][\A r \in Req :
            (Takes(r, "create_user", "commit") /\ resp'.status = 200) =>
                /\ \A i \in DOMAIN users : users[i].username # req[r].data.username
                /\ Len(users') = Len(users) + 1
                /\ users'[Len(users')].username = req[r].data.username
         ]_vars

\* of two registers of a username under way at once, one has stored its User
\* and the other has been answered 500
C9_Witness ==
    /\ resp.op = "create_user"
    /\ resp.status = 500
    /\ \E i \in DOMAIN users : users[i].username = resp.data.username

\* C10 as claimed: every product in the store has a name, a description, a
\* price and an in_stock that are not null.
C10_NeverNull ==
    \A i \in DOMAIN products : \A k \in CheckedFields : products[i][k] # None

\* C11 as claimed: under any interleaving of update and delete requests on
\* one id, each doing its lookup and its commit as separate steps, every
\* request ends in success or in NotFound and in no other error kind, a
\* Product is successfully deleted by at most one request (a delete that
\* reports success removed a row that was in the store when it committed),
\* and no update reports success for a Product that is absent from the
\* store when the update commits.  The 500 of an update whose merged row
\* fails response validation is not counted here, so that the property
\* speaks of the interleaving alone.
C11_Interleaving ==
    [][\A r \in Req :
          /\ Takes(r, "update_product", "commit") =>
                /\ \/ resp'.status \in {200, 404}
                   \/ /\ Found(products', req[r].id)
                      /\ ~Validates(Instance(products', req[r].id))
                /\ resp'.status = 200 => Found(products, req[r].id)
          /\ Takes(r, "delete_product", "commit") =>
                /\ resp'.status \in {200, 404}
                /\ resp'.status = 200 => Found(products, req[r].id)]_vars

====
